---- MODULE Spec2Model ----
(***************************************************************************)
(* private_gpt/settings/settings.py: the typed settings schema, the        *)
(* module-level load (load_active_settings, then Settings over the raw mapping) and the  *)
(* settings() accessor.                                                    *)
(*                                                                         *)
(* The classes are pydantic (v2) models: each class of the source is a     *)
(* schema (field -> declaration) and Validate/BindModel apply pydantic's   *)
(* lax-mode validation to a raw mapping under those declarations.  The     *)
(* module body runs under CPython's import protocol (per-module lock,      *)
(* sys.modules entry removed when the body raises).                        *)
(***************************************************************************)
EXTENDS Integers, Sequences, FiniteSets, TLC

(***************************************************************************)
(* Python str values are sequences of one-character strings.               *)
(***************************************************************************)
s_GET == <<"G", "E", "T">>
s_secret_key == <<"s", "e", "c", "r", "e", "t", "-", "k", "e", "y">>
s_jwks_default ==
    <<"h", "t", "t", "p", "s", ":", "/", "/", "e", "x", "a", "m", "p", "l", "e", ".",
      "c", "o", "m", "/", ".", "w", "e", "l", "l", "-", "k", "n", "o", "w", "n", "/",
      "j", "w", "k", "s", ".", "j", "s", "o", "n">>
s_ingest == <<"i", "n", "g", "e", "s", "t">>
s_sub == <<"s", "u", "b">>
s_privateGPT == <<"p", "r", "i", "v", "a", "t", "e", "G", "P", "T">>
s_redis == <<"r", "e", "d", "i", "s">>
s_dummy_table == <<"d", "u", "m", "m", "y", "_", "t", "a", "b", "l", "e">>
s_disk == <<"d", "i", "s", "k">>
s_private_gpt_documents ==
    <<"p", "r", "i", "v", "a", "t", "e", "_", "g", "p", "t", "_", "d", "o", "c", "u",
      "m", "e", "n", "t", "s">>
s_private_gpt_index ==
    <<"p", "r", "i", "v", "a", "t", "e", "_", "g", "p", "t", "_", "i", "n", "d", "e",
      "x">>
s_local == <<"l", "o", "c", "a", "l">>
s_openai == <<"o", "p", "e", "n", "a", "i">>
s_sagemaker == <<"s", "a", "g", "e", "m", "a", "k", "e", "r">>
s_mock == <<"m", "o", "c", "k">>
s_chroma == <<"c", "h", "r", "o", "m", "a">>
s_qdrant == <<"q", "d", "r", "a", "n", "t">>
s_dynamodb == <<"d", "y", "n", "a", "m", "o", "d", "b">>
s_prod == <<"p", "r", "o", "d">>
s_data == <<"/", "d", "a", "t", "a">>
s_slash == <<"/">>
s_repo == <<"r", "e", "p", "o">>
s_file == <<"f", "i", "l", "e">>
s_emb == <<"e", "m", "b">>
s_ep == <<"e", "p">>
s_key == <<"k", "e", "y">>
s_myredis == <<"m", "y", "r", "e", "d", "i", "s">>
s_8001 == <<"8", "0", "0", "1">>
s_6380 == <<"6", "3", "8", "0">>
s_abc == <<"a", "b", "c">>
s_azure == <<"a", "z", "u", "r", "e">>
s_empty == <<>>
s_tbl == <<"t", "b", "l">>
s_star == <<"*">>
s_POST == <<"P", "O", "S", "T">>
s_true == <<"t", "r", "u", "e">>

(***************************************************************************)
(* Raw (untyped) values, as a loader hands them over: None, bool, int,     *)
(* str, list, mapping.  A raw layer is a function from keys to raw values. *)
(***************************************************************************)
RNone == [t |-> "none"]
RBool(b) == [t |-> "bool", b |-> b]
RInt(n) == [t |-> "int", n |-> n]
RStr(s) == [t |-> "str", s |-> s]
RList(l) == [t |-> "list", l |-> l]
RMap(m) == [t |-> "map", m |-> m]
EmptyMap == [k \in {} |-> RNone]

(***************************************************************************)
(* Typed values.  Mutable objects (model instances, lists) carry their     *)
(* identity: the construction that allocated them and the place in it.     *)
(***************************************************************************)
Id(owner, loc) == [owner |-> owner, loc |-> loc]
TNone == [t |-> "none"]
TBool(b) == [t |-> "bool", b |-> b]
TInt(n) == [t |-> "int", n |-> n]
TFloat(n) == [t |-> "float", n |-> n]
TStr(s) == [t |-> "str", s |-> s]
TList(id, l) == [t |-> "list", id |-> id, l |-> l]
TModel(cls, id, f) == [t |-> "model", cls |-> cls, id |-> id, f |-> f]

(***************************************************************************)
(* Field declarations.                                                     *)
(***************************************************************************)
BoolT == [k |-> "bool"]
IntT == [k |-> "int"]
FloatT == [k |-> "float"]
StrT == [k |-> "str"]
ListStrT == [k |-> "list_str"]
LiteralT(vals) == [k |-> "literal", vals |-> vals]
ModelT(cls) == [k |-> "model", cls |-> cls]
OptionalT(ty) == [k |-> "optional", of |-> ty]

\* Field(...) without default: required.
Required(ty) == [ty |-> ty, kind |-> "required"]
\* Field(default=v), v a value built when the class is defined.
Default(ty, v) == [ty |-> ty, kind |-> "default", default |-> v]
\* Field(default=Cls(kwargs)): one instance built when the class is defined.
DefaultInstance(ty, kwargs) == [ty |-> ty, kind |-> "default_instance", kwargs |-> kwargs]
\* Field(default_factory=lambda: Cls(kwargs)): built at each use.
DefaultFactory(ty, kwargs) == [ty |-> ty, kind |-> "factory", kwargs |-> kwargs]

\* The identity of an object stored in a class's field declaration.
ClassOwner(cls, field) == <<"class", cls, field>>
ClassList(cls, field, l) == TList(Id(ClassOwner(cls, field), <<>>), l)

(***************************************************************************)
(* The schema: one definition per class of settings.py.                    *)
(***************************************************************************)
CorsSettings ==
    [enabled |-> Default(BoolT, TBool(FALSE)),
     allow_credentials |-> Default(BoolT, TBool(FALSE)),
     allow_origins |-> Default(ListStrT, ClassList("CorsSettings", "allow_origins", <<>>)),
     allow_origin_regex |-> Default(ListStrT, TNone),
     allow_methods |->
        Default(ListStrT, ClassList("CorsSettings", "allow_methods", <<TStr(s_GET)>>)),
     allow_headers |-> Default(ListStrT, ClassList("CorsSettings", "allow_headers", <<>>))]

BasicAuthSettings ==
    [enabled |-> Default(BoolT, TBool(FALSE)),
     secret |-> Required(StrT)]

JWTAuthSettings ==
    [enabled |-> Default(BoolT, TBool(FALSE)),
     jwks_url |-> Required(StrT),
     ingest_claim |-> Default(StrT, TStr(s_ingest)),
     user_id_claim |-> Default(StrT, TStr(s_sub)),
     audience |-> Default(StrT, TStr(s_privateGPT))]

ServerSettings ==
    [env_name |-> Required(StrT),
     port |-> Required(IntT),
     cors |-> DefaultInstance(ModelT("CorsSettings"), [enabled |-> RBool(FALSE)]),
     basic_auth |->
        DefaultFactory(ModelT("BasicAuthSettings"),
                       [enabled |-> RBool(FALSE), secret |-> RStr(s_secret_key)]),
     jwt_auth |->
        DefaultFactory(ModelT("JWTAuthSettings"),
                       [enabled |-> RBool(FALSE), jwks_url |-> RStr(s_jwks_default)])]

DataSettings == [local_data_folder |-> Required(StrT)]

LLMModes == {s_local, s_openai, s_sagemaker, s_mock}

LLMSettings == [mode |-> Required(LiteralT(LLMModes))]

VectorstoreSettings ==
    [database |-> Required(LiteralT({s_chroma, s_qdrant})),
     collection_name |-> Default(StrT, TStr(s_privateGPT))]

RedisSettings ==
    [host |-> Default(StrT, TStr(s_redis)),
     port |-> Default(IntT, TInt(6379))]

DynamoDBSettings == [table_name |-> Default(StrT, TStr(s_dummy_table))]

DocumentstoreSettings ==
    [database |-> Default(LiteralT({s_disk, s_redis, s_dynamodb}), TStr(s_disk)),
     namespace |-> Default(StrT, TStr(s_private_gpt_documents)),
     redis |->
        DefaultFactory(ModelT("RedisSettings"),
                       [host |-> RStr(s_redis), port |-> RInt(6379)]),
     dynamodb |->
        DefaultFactory(ModelT("DynamoDBSettings"), [table_name |-> RStr(s_dummy_table)])]

IndexstoreSettings ==
    [database |-> Default(LiteralT({s_disk, s_redis, s_dynamodb}), TStr(s_disk)),
     namespace |-> Default(StrT, TStr(s_private_gpt_index)),
     redis |->
        DefaultFactory(ModelT("RedisSettings"),
                       [host |-> RStr(s_redis), port |-> RInt(6379)]),
     dynamodb |->
        DefaultFactory(ModelT("DynamoDBSettings"), [table_name |-> RStr(s_dummy_table)])]

LocalSettings ==
    [llm_hf_repo_id |-> Required(StrT),
     llm_hf_model_file |-> Required(StrT),
     embedding_hf_model_name |-> Required(StrT)]

SagemakerSettings ==
    [llm_endpoint_name |-> Required(StrT),
     embedding_endpoint_name |-> Required(StrT)]

OpenAISettings == [api_key |-> Required(StrT)]

UISettings == [enabled |-> Required(BoolT), path |-> Required(StrT)]

QdrantSettings ==
    [location |-> Default(OptionalT(StrT), TNone),
     url |-> Default(OptionalT(StrT), TNone),
     port |-> Default(OptionalT(IntT), TInt(6333)),
     grpc_port |-> Default(OptionalT(IntT), TInt(6334)),
     prefer_grpc |-> Default(OptionalT(BoolT), TBool(FALSE)),
     https |-> Default(OptionalT(BoolT), TNone),
     api_key |-> Default(OptionalT(StrT), TNone),
     prefix |-> Default(OptionalT(StrT), TNone),
     timeout |-> Default(OptionalT(FloatT), TNone),
     host |-> Default(OptionalT(StrT), TNone),
     path |-> Default(OptionalT(StrT), TNone),
     force_disable_check_same_thread |-> Default(OptionalT(BoolT), TBool(TRUE))]

Settings ==
    [server |-> Required(ModelT("ServerSettings")),
     data |-> Required(ModelT("DataSettings")),
     ui |-> Required(ModelT("UISettings")),
     llm |-> Required(ModelT("LLMSettings")),
     local |-> Required(ModelT("LocalSettings")),
     sagemaker |-> Required(ModelT("SagemakerSettings")),
     openai |-> Required(ModelT("OpenAISettings")),
     vectorstore |-> Required(ModelT("VectorstoreSettings")),
     indexstore |-> Required(ModelT("IndexstoreSettings")),
     documentstore |-> Required(ModelT("DocumentstoreSettings")),
     qdrant |-> Default(OptionalT(ModelT("QdrantSettings")), TNone)]

Schema(cls) ==
    CASE cls = "CorsSettings" -> CorsSettings
      [] cls = "BasicAuthSettings" -> BasicAuthSettings
      [] cls = "JWTAuthSettings" -> JWTAuthSettings
      [] cls = "ServerSettings" -> ServerSettings
      [] cls = "DataSettings" -> DataSettings
      [] cls = "LLMSettings" -> LLMSettings
      [] cls = "VectorstoreSettings" -> VectorstoreSettings
      [] cls = "RedisSettings" -> RedisSettings
      [] cls = "DynamoDBSettings" -> DynamoDBSettings
      [] cls = "DocumentstoreSettings" -> DocumentstoreSettings
      [] cls = "IndexstoreSettings" -> IndexstoreSettings
      [] cls = "LocalSettings" -> LocalSettings
      [] cls = "SagemakerSettings" -> SagemakerSettings
      [] cls = "OpenAISettings" -> OpenAISettings
      [] cls = "UISettings" -> UISettings
      [] cls = "QdrantSettings" -> QdrantSettings
      [] cls = "Settings" -> Settings

(***************************************************************************)
(* Validation of one raw value against a declared type (pydantic's lax     *)
(* mode, the mode of a BaseModel that sets no strict config).  The raw     *)
(* strings of this model are over letters, digits, sign and punctuation:   *)
(* no whitespace, underscore or decimal point reaches a numeric field.     *)
(***************************************************************************)
DigitVal ==
    ("0" :> 0) @@ ("1" :> 1) @@ ("2" :> 2) @@ ("3" :> 3) @@ ("4" :> 4) @@
    ("5" :> 5) @@ ("6" :> 6) @@ ("7" :> 7) @@ ("8" :> 8) @@ ("9" :> 9)

RECURSIVE DigitsValue(_)
DigitsValue(s) ==
    IF s = <<>> THEN 0
    ELSE 10 * DigitsValue(SubSeq(s, 1, Len(s) - 1)) + DigitVal[s[Len(s)]]

AllDigits(s) == s # <<>> /\ \A i \in 1..Len(s) : s[i] \in DOMAIN DigitVal

\* str -> int: an optional sign, then decimal digits; anything else does not parse.
StrAsInt(s) ==
    IF AllDigits(s) THEN [ok |-> TRUE, n |-> DigitsValue(s)]
    ELSE IF s # <<>> /\ s[1] \in {"+", "-"} /\ AllDigits(Tail(s))
         THEN [ok |-> TRUE,
               n |-> IF s[1] = "-" THEN 0 - DigitsValue(Tail(s)) ELSE DigitsValue(Tail(s))]
         ELSE [ok |-> FALSE, n |-> 0]

BoolTrueStrings ==
    {<<"1">>, <<"o", "n">>, <<"t">>, <<"t", "r", "u", "e">>, <<"y">>, <<"y", "e", "s">>}
BoolFalseStrings ==
    {<<"0">>, <<"o", "f", "f">>, <<"f">>, <<"f", "a", "l", "s", "e">>, <<"n">>,
     <<"n", "o">>}

Ok(v) == [ok |-> TRUE, v |-> v, errs |-> {}]
Err(loc, type) == [ok |-> FALSE, v |-> TNone, errs |-> {[loc |-> loc, type |-> type]}]

ValidateBool(raw, loc) ==
    CASE raw.t = "bool" -> Ok(TBool(raw.b))
      [] raw.t = "int" ->
            IF raw.n \in {0, 1} THEN Ok(TBool(raw.n = 1)) ELSE Err(loc, "bool_parsing")
      [] raw.t = "str" ->
            IF raw.s \in BoolTrueStrings THEN Ok(TBool(TRUE))
            ELSE IF raw.s \in BoolFalseStrings THEN Ok(TBool(FALSE))
            ELSE Err(loc, "bool_parsing")
      [] OTHER -> Err(loc, "bool_type")

\* ValidateInt, were the field strict: only an int is an int.
ValidateIntStrict(raw, loc) ==
    IF raw.t = "int" THEN Ok(TInt(raw.n)) ELSE Err(loc, "int_type")

ValidateInt(raw, loc) ==
    CASE raw.t = "int" -> Ok(TInt(raw.n))
      [] raw.t = "bool" -> Ok(TInt(IF raw.b THEN 1 ELSE 0))
      [] raw.t = "str" ->
            LET p == StrAsInt(raw.s)
            IN  IF p.ok THEN Ok(TInt(p.n)) ELSE Err(loc, "int_parsing")
      [] OTHER -> Err(loc, "int_type")

ValidateFloat(raw, loc) ==
    CASE raw.t = "int" -> Ok(TFloat(raw.n))
      [] raw.t = "bool" -> Ok(TFloat(IF raw.b THEN 1 ELSE 0))
      [] raw.t = "str" ->
            LET p == StrAsInt(raw.s)
            IN  IF p.ok THEN Ok(TFloat(p.n)) ELSE Err(loc, "float_parsing")
      [] OTHER -> Err(loc, "float_type")

ValidateStr(raw, loc) ==
    IF raw.t = "str" THEN Ok(TStr(raw.s)) ELSE Err(loc, "string_type")

\* ValidateLiteral, were the field declared str instead of Literal[...].
ValidateLiteralAny(vals, raw, loc) == ValidateStr(raw, loc)

ValidateLiteral(vals, raw, loc) ==
    IF raw.t = "str" /\ raw.s \in vals THEN Ok(TStr(raw.s)) ELSE Err(loc, "literal_error")

\* list[str]: a new list, each item validated as str.
ValidateListStr(raw, owner, loc) ==
    IF raw.t # "list" THEN Err(loc, "list_type")
    ELSE LET r == [i \in 1..Len(raw.l) |-> ValidateStr(raw.l[i], loc \o <<ToString(i - 1)>>)]
         IN  IF \A i \in 1..Len(raw.l) : r[i].ok
             THEN Ok(TList(Id(owner, loc), [i \in 1..Len(raw.l) |-> r[i].v]))
             ELSE [ok |-> FALSE, v |-> TNone,
                   errs |-> UNION {r[i].errs : i \in 1..Len(raw.l)}]

\* copy.deepcopy of a value into the object tree of `owner` at `loc`.
RECURSIVE DeepCopy(_, _, _)
DeepCopy(v, owner, loc) ==
    CASE v.t = "list" -> TList(Id(owner, loc), v.l)
      [] v.t = "model" ->
            TModel(v.cls, Id(owner, loc),
                   [f \in DOMAIN v.f |-> DeepCopy(v.f[f], owner, loc \o <<f>>)])
      [] OTHER -> v

\* CopyDefault, were the declared default handed out itself.
CopyDefaultShared(v, owner, loc) == v

\* A declared default that is not hashable (a list, a model instance) is deep-copied
\* for each instance that takes it; a hashable one (None, bool, int, str) is shared.
CopyDefault(v, owner, loc) == DeepCopy(v, owner, loc)

RECURSIVE Validate(_, _, _, _)
RECURSIVE BindModel(_, _, _, _)
RECURSIVE FieldDefault(_, _, _, _)

\* FieldDefault, were a required field without a value left None instead of reported.
FieldDefaultLenient(cls, field, owner, loc) ==
    LET fd == Schema(cls)[field]
    IN  CASE fd.kind = "required" -> Ok(TNone)
          [] fd.kind = "default" -> Ok(CopyDefault(fd.default, owner, loc))
          [] fd.kind = "default_instance" ->
                Ok(CopyDefault(BindModel(fd.ty.cls, fd.kwargs, ClassOwner(cls, field), <<>>).v,
                               owner, loc))
          [] fd.kind = "factory" -> BindModel(fd.ty.cls, fd.kwargs, owner, loc)

\* FieldDefault, were a declared default value dropped: the absent field is None.
FieldDefaultNone(cls, field, owner, loc) ==
    LET fd == Schema(cls)[field]
    IN  CASE fd.kind = "required" -> Err(loc, "missing")
          [] fd.kind = "default" -> Ok(TNone)
          [] fd.kind = "default_instance" ->
                Ok(CopyDefault(BindModel(fd.ty.cls, fd.kwargs, ClassOwner(cls, field), <<>>).v,
                               owner, loc))
          [] fd.kind = "factory" -> BindModel(fd.ty.cls, fd.kwargs, owner, loc)

\* The value a field takes when the mapping has no key for it.
FieldDefault(cls, field, owner, loc) ==
    LET fd == Schema(cls)[field]
    IN  CASE fd.kind = "required" -> Err(loc, "missing")
          [] fd.kind = "default" -> Ok(CopyDefault(fd.default, owner, loc))
          [] fd.kind = "default_instance" ->
                Ok(CopyDefault(BindModel(fd.ty.cls, fd.kwargs, ClassOwner(cls, field), <<>>).v,
                               owner, loc))
          [] fd.kind = "factory" -> BindModel(fd.ty.cls, fd.kwargs, owner, loc)

Validate(ty, raw, owner, loc) ==
    CASE ty.k = "optional" ->
            IF raw.t = "none" THEN Ok(TNone) ELSE Validate(ty.of, raw, owner, loc)
      [] ty.k = "bool" -> ValidateBool(raw, loc)
      [] ty.k = "int" -> ValidateInt(raw, loc)
      [] ty.k = "float" -> ValidateFloat(raw, loc)
      [] ty.k = "str" -> ValidateStr(raw, loc)
      [] ty.k = "literal" -> ValidateLiteral(ty.vals, raw, loc)
      [] ty.k = "list_str" -> ValidateListStr(raw, owner, loc)
      [] ty.k = "model" ->
            IF raw.t = "map" THEN BindModel(ty.cls, raw.m, owner, loc)
            ELSE Err(loc, "model_type")

\* Cls(kwargs): every declared field is validated or defaulted, keys that are not
\* declared are ignored, all errors are collected, and one error leaves no instance.
BindModel(cls, kwargs, owner, loc) ==
    LET sch == Schema(cls)
        r == [f \in DOMAIN sch |->
                IF f \in DOMAIN kwargs
                THEN Validate(sch[f].ty, kwargs[f], owner, loc \o <<f>>)
                ELSE FieldDefault(cls, f, owner, loc \o <<f>>)]
    IN  IF \A f \in DOMAIN sch : r[f].ok
        THEN Ok(TModel(cls, Id(owner, loc), [f \in DOMAIN sch |-> r[f].v]))
        ELSE [ok |-> FALSE, v |-> TNone, errs |-> UNION {r[f].errs : f \in DOMAIN sch}]

(***************************************************************************)
(* load_active_settings (private_gpt.settings.settings_loader): the        *)
(* configuration sources, base profile first, are read and deep-merged     *)
(* left to right.                                                          *)
(***************************************************************************)
AbsentSource == [t |-> "absent"]
MalformedSource == [t |-> "malformed"]

\* deep_update, were it dict.update: the later layer's value replaces the earlier
\* one at the top level, nested mappings included.
shallow_update(acc, nxt) ==
    [k \in DOMAIN acc \cup DOMAIN nxt |-> IF k \in DOMAIN nxt THEN nxt[k] ELSE acc[k]]

\* One merge step: mappings on both sides recurse, anything else is replaced.
RECURSIVE deep_update(_, _)
deep_update(acc, nxt) ==
    [k \in DOMAIN acc \cup DOMAIN nxt |->
        IF k \notin DOMAIN nxt THEN acc[k]
        ELSE IF k \in DOMAIN acc /\ acc[k].t = "map" /\ nxt[k].t = "map"
             THEN RMap(deep_update(acc[k].m, nxt[k].m))
             ELSE nxt[k]]

\* The layer of a source: a profile without a source contributes an empty layer.
LayerOf(source) == IF source.t = "map" THEN source.m ELSE EmptyMap

\* The accumulator after the first n layers, starting from the empty mapping.
RECURSIVE merge_settings(_, _)
merge_settings(sources, n) ==
    IF n = 0 THEN EmptyMap
    ELSE deep_update(merge_settings(sources, n - 1), LayerOf(sources[n]))

load_active_settings(sources) ==
    IF sources[1].t = "absent" THEN [ok |-> FALSE, error |-> "MissingBaseProfile"]
    ELSE IF \E i \in 1..Len(sources) : sources[i].t = "malformed"
         THEN [ok |-> FALSE, error |-> "MalformedLayer"]
         ELSE [ok |-> TRUE, raw |-> merge_settings(sources, Len(sources))]

(***************************************************************************)
(* Configuration sources the checks draw from.                             *)
(***************************************************************************)
\* A base profile that supplies every required field.
GoodBase ==
    [server |-> RMap([env_name |-> RStr(s_prod), port |-> RInt(8001)]),
     data |-> RMap([local_data_folder |-> RStr(s_data)]),
     ui |-> RMap([enabled |-> RBool(TRUE), path |-> RStr(s_slash)]),
     llm |-> RMap([mode |-> RStr(s_mock)]),
     local |->
        RMap([llm_hf_repo_id |-> RStr(s_repo), llm_hf_model_file |-> RStr(s_file),
              embedding_hf_model_name |-> RStr(s_emb)]),
     sagemaker |->
        RMap([llm_endpoint_name |-> RStr(s_ep), embedding_endpoint_name |-> RStr(s_ep)]),
     openai |-> RMap([api_key |-> RStr(s_empty)]),
     vectorstore |-> RMap([database |-> RStr(s_chroma)]),
     indexstore |-> RMap([database |-> RStr(s_disk)]),
     documentstore |-> RMap([database |-> RStr(s_disk)])]

\* An overlay profile: a port override and a redis document store.
ExampleOverlay ==
    [server |-> RMap([port |-> RInt(9000)]),
     documentstore |->
        RMap([database |-> RStr(s_redis),
              redis |-> RMap([host |-> RStr(s_myredis), port |-> RInt(6380)])])]

\* m without key k.
Without(m, k) == [j \in DOMAIN m \ {k} |-> m[j]]

\* m with key k set to v (added when absent).
With(m, k, v) == [j \in DOMAIN m \cup {k} |-> IF j = k THEN v ELSE m[j]]

AccessorEnvs ==
    {<<RMap(GoodBase)>>,
     <<RMap(GoodBase), RMap(ExampleOverlay)>>,
     <<RMap(GoodBase), AbsentSource>>,
     <<AbsentSource>>,
     <<RMap(GoodBase), MalformedSource>>,
     <<RMap(Without(GoodBase, "openai"))>>,
     <<RMap(GoodBase), RMap([llm |-> RMap([mode |-> RStr(s_azure)])])>>}

(***************************************************************************)
(* The process.  The module body of settings.py (class definitions, then   *)
(* lines 258 and 265, then def settings) runs when a thread first imports  *)
(* the module.  CPython runs it under the module's import lock with the    *)
(* module object already in sys.modules; a thread that finds the module    *)
(* there while it initialises waits for the lock and is then handed that   *)
(* module object; a body that raises removes the entry from sys.modules.   *)
(***************************************************************************)
NThreads == 2
MaxLoads == 2
MaxAccess == 2

Threads == 1..NThreads

VARIABLES
    env,                    \* the configuration sources, base profile first
    sys_modules,            \* the module's entry: "absent", "initializing", "ready"
    current,                \* the module object in sys.modules (0: none)
    import_lock,            \* the thread holding the module's import lock (0: free)
    unsafe_settings,        \* per module object: the name unsafe_settings
    unsafe_typed_settings,  \* per module object: the name unsafe_typed_settings
    global_injector,        \* private_gpt.di.global_injector's binding of Settings
    pc,                     \* per thread: where it is
    handle,                 \* per thread: the module object its import gave it
    raised,                 \* per thread: the last exception it saw
    returned,               \* per thread: what its accesses returned
    loads,                  \* runs of load_active_settings so far
    import_begun,           \* some thread has executed an import of the module
    accessed,               \* some thread has called settings() or resolved Settings
    tests,                  \* Settings instances constructed outside the module body
    touched                 \* the instances a mutation was made through

vars ==
    <<env, sys_modules, current, import_lock, unsafe_settings, unsafe_typed_settings,
      global_injector, pc, handle, raised, returned, loads, import_begun, accessed,
      tests, touched>>

Unbound == [t |-> "unbound"]
NoError == [type |-> "none"]

LoadOwner(k) == <<"load", ToString(k)>>
TestOwner(j) == <<"test", ToString(j)>>

\* Construct, were a failed validation to leave an instance with the fields that did
\* validate or default (the invalid ones None) instead of raising.
RECURSIVE BindPartial(_, _, _, _)
BindPartial(cls, kwargs, owner, loc) ==
    LET sch == Schema(cls)
        r == [f \in DOMAIN sch |->
                IF f \in DOMAIN kwargs
                THEN IF sch[f].ty.k = "model" /\ kwargs[f].t = "map"
                     THEN BindPartial(sch[f].ty.cls, kwargs[f].m, owner, loc \o <<f>>)
                     ELSE Validate(sch[f].ty, kwargs[f], owner, loc \o <<f>>)
                ELSE FieldDefault(cls, f, owner, loc \o <<f>>)]
    IN  Ok(TModel(cls, Id(owner, loc), [f \in DOMAIN sch |-> r[f].v]))

ConstructPartial(raw, owner) == BindPartial("Settings", raw, owner, <<>>)

\* Settings(kwargs) for the raw mapping, as line 265 calls it.
Construct(raw, owner) == BindModel("Settings", raw, owner, <<>>)

InitProcess ==
    /\ sys_modules = "absent"
    /\ current = 0
    /\ import_lock = 0
    /\ unsafe_settings = <<>>
    /\ unsafe_typed_settings = <<>>
    /\ global_injector = Unbound
    /\ pc = [t \in Threads |-> "start"]
    /\ handle = [t \in Threads |-> 0]
    /\ raised = [t \in Threads |-> NoError]
    /\ returned = [t \in Threads |-> <<>>]
    /\ loads = 0
    /\ import_begun = FALSE
    /\ accessed = FALSE
    /\ tests = <<>>
    /\ touched = {}

Init == env \in AccessorEnvs /\ InitProcess

\* ImportExec, were the load deferred out of the module body: the import returns at
\* once with a module that has run neither line 258 nor line 265.
ImportExecDeferred(t) ==
    /\ pc[t] = "start"
    /\ sys_modules = "absent"
    /\ import_lock = 0
    /\ Len(unsafe_settings) < MaxLoads
    /\ sys_modules' = "ready"
    /\ current' = Len(unsafe_settings) + 1
    /\ unsafe_settings' = Append(unsafe_settings, Unbound)
    /\ unsafe_typed_settings' = Append(unsafe_typed_settings, Unbound)
    /\ handle' = [handle EXCEPT ![t] = Len(unsafe_settings) + 1]
    /\ pc' = [pc EXCEPT ![t] = "imported"]
    /\ import_begun' = TRUE
    /\ UNCHANGED <<env, import_lock, global_injector, raised, returned, loads, accessed,
                   tests, touched>>

\* import of the module by a thread that finds no entry in sys.modules: it takes the
\* import lock, enters a new module object and starts the module body.
ImportExec(t) ==
    /\ pc[t] = "start"
    /\ sys_modules = "absent"
    /\ import_lock = 0
    /\ Len(unsafe_settings) < MaxLoads
    /\ import_lock' = t
    /\ sys_modules' = "initializing"
    /\ current' = Len(unsafe_settings) + 1
    /\ unsafe_settings' = Append(unsafe_settings, Unbound)
    /\ unsafe_typed_settings' = Append(unsafe_typed_settings, Unbound)
    /\ handle' = [handle EXCEPT ![t] = Len(unsafe_settings) + 1]
    /\ pc' = [pc EXCEPT ![t] = "line258"]
    /\ import_begun' = TRUE
    /\ UNCHANGED <<env, global_injector, raised, returned, loads, accessed, tests,
                   touched>>

\* import by a thread that finds the module initialising: it waits for the lock.
ImportWait(t) ==
    /\ pc[t] = "start"
    /\ sys_modules = "initializing"
    /\ handle' = [handle EXCEPT ![t] = current]
    /\ pc' = [pc EXCEPT ![t] = "waiting"]
    /\ import_begun' = TRUE
    /\ UNCHANGED <<env, sys_modules, current, import_lock, unsafe_settings,
                   unsafe_typed_settings, global_injector, raised, returned, loads,
                   accessed, tests, touched>>

\* import by a thread that finds the module initialised.
ImportLoaded(t) ==
    /\ pc[t] = "start"
    /\ sys_modules = "ready"
    /\ handle' = [handle EXCEPT ![t] = current]
    /\ pc' = [pc EXCEPT ![t] = "imported"]
    /\ import_begun' = TRUE
    /\ UNCHANGED <<env, sys_modules, current, import_lock, unsafe_settings,
                   unsafe_typed_settings, global_injector, raised, returned, loads,
                   accessed, tests, touched>>

\* WaitDone, were the waiting thread not to wait for the import lock.
WaitDoneUnlocked(t) ==
    /\ pc[t] = "waiting"
    /\ pc' = [pc EXCEPT ![t] = "imported"]
    /\ UNCHANGED <<env, sys_modules, current, import_lock, unsafe_settings,
                   unsafe_typed_settings, global_injector, handle, raised, returned,
                   loads, import_begun, accessed, tests, touched>>

\* The lock is released: the waiting thread is handed the module object it found,
\* whether its body completed or raised.
WaitDone(t) ==
    /\ pc[t] = "waiting"
    /\ import_lock = 0
    /\ pc' = [pc EXCEPT ![t] = "imported"]
    /\ UNCHANGED <<env, sys_modules, current, import_lock, unsafe_settings,
                   unsafe_typed_settings, global_injector, handle, raised, returned,
                   loads, import_begun, accessed, tests, touched>>

\* The module body raises: the entry leaves sys.modules, the lock is released and the
\* exception reaches the importing thread.
FailImport(t, error) ==
    /\ sys_modules' = "absent"
    /\ current' = 0
    /\ import_lock' = 0
    /\ pc' = [pc EXCEPT ![t] = "raised"]
    /\ raised' = [raised EXCEPT ![t] = error]

\* Line 258: unsafe_settings = load_active_settings()
ExecLine258(t) ==
    /\ pc[t] = "line258"
    /\ loads' = loads + 1
    /\ LET r == load_active_settings(env)
       IN  IF r.ok
           THEN /\ unsafe_settings' = [unsafe_settings EXCEPT ![handle[t]] = RMap(r.raw)]
                /\ pc' = [pc EXCEPT ![t] = "line265"]
                /\ UNCHANGED <<sys_modules, current, import_lock, raised>>
           ELSE /\ FailImport(t, [type |-> r.error, attempt |-> handle[t]])
                /\ UNCHANGED unsafe_settings
    /\ UNCHANGED <<env, unsafe_typed_settings, global_injector, handle, returned,
                   import_begun, accessed, tests, touched>>

\* Line 265: unsafe_typed_settings = Settings(kwargs), then def settings; the import
\* is complete.
ExecLine265(t) ==
    /\ pc[t] = "line265"
    /\ LET b == Construct(unsafe_settings[handle[t]].m, LoadOwner(handle[t]))
       IN  IF b.ok
           THEN /\ unsafe_typed_settings' =
                       [unsafe_typed_settings EXCEPT ![handle[t]] = b.v]
                /\ sys_modules' = "ready"
                /\ import_lock' = 0
                /\ pc' = [pc EXCEPT ![t] = "imported"]
                /\ UNCHANGED <<current, raised>>
           ELSE /\ FailImport(t, [type |-> "ValidationError", attempt |-> handle[t],
                                  errs |-> b.errs])
                /\ UNCHANGED unsafe_typed_settings
    /\ UNCHANGED <<env, unsafe_settings, global_injector, handle, returned, loads,
                   import_begun, accessed, tests, touched>>

\* private_gpt.di: the injector binds Settings to the module's unsafe_typed_settings
\* when private_gpt.di is first imported, and get(Settings) returns what is bound.
InjectorAfterImport ==
    IF global_injector = Unbound
    THEN [t |-> "injector", bound |-> unsafe_typed_settings[current]]
    ELSE global_injector

InjectorGet(injector) == injector.bound

\* settings(), were it to build a Settings from the raw mapping at each call.
settings_fresh(injector) == Construct(unsafe_settings[current].m, <<"call">>).v

\* settings(): from private_gpt.di import global_injector; global_injector.get(Settings)
settings(injector) == InjectorGet(injector)

\* A thread may use the module's names once its import has returned.
CanAccess(t) == pc[t] = "imported" /\ Len(returned[t]) < MaxAccess

\* The names after line 265 exist only in a module whose body completed.
HasSettings(k) == unsafe_typed_settings[k] # Unbound

\* A call of settings() by a thread that imported the module.
CallSettings(t) ==
    /\ CanAccess(t)
    /\ accessed' = TRUE
    /\ IF HasSettings(handle[t])
       THEN /\ global_injector' = InjectorAfterImport
            /\ returned' = [returned EXCEPT ![t] =
                               Append(@, [via |-> "settings",
                                          id |-> settings(InjectorAfterImport).id])]
            /\ UNCHANGED <<pc, raised>>
       ELSE /\ pc' = [pc EXCEPT ![t] = "raised"]
            /\ raised' = [raised EXCEPT ![t] =
                             [type |-> "ImportError", attempt |-> handle[t]]]
            /\ UNCHANGED <<global_injector, returned>>
    /\ UNCHANGED <<env, sys_modules, current, import_lock, unsafe_settings,
                   unsafe_typed_settings, handle, loads, import_begun, tests, touched>>

\* Resolution of Settings through the injector by a thread that imported the module.
InjectorResolve(t) ==
    /\ CanAccess(t)
    /\ accessed' = TRUE
    /\ IF HasSettings(handle[t])
       THEN /\ global_injector' = InjectorAfterImport
            /\ returned' = [returned EXCEPT ![t] =
                               Append(@, [via |-> "injector",
                                          id |-> InjectorGet(InjectorAfterImport).id])]
            /\ UNCHANGED <<pc, raised>>
       ELSE /\ pc' = [pc EXCEPT ![t] = "raised"]
            /\ raised' = [raised EXCEPT ![t] =
                             [type |-> "ImportError", attempt |-> handle[t]]]
            /\ UNCHANGED <<global_injector, returned>>
    /\ UNCHANGED <<env, sys_modules, current, import_lock, unsafe_settings,
                   unsafe_typed_settings, handle, loads, import_begun, tests, touched>>

\* A thread that saw an exception imports the module again.
Retry(t) ==
    /\ pc[t] = "raised"
    /\ pc' = [pc EXCEPT ![t] = "start"]
    /\ UNCHANGED <<env, sys_modules, current, import_lock, unsafe_settings,
                   unsafe_typed_settings, global_injector, handle, raised, returned,
                   loads, import_begun, accessed, tests, touched>>


(***************************************************************************)
(* Concurrent first access: threads import the module and use both access  *)
(* paths.                                                                  *)
(***************************************************************************)
Next ==
    \E t \in Threads :
        \/ ImportExec(t)
        \/ ImportWait(t)
        \/ ImportLoaded(t)
        \/ WaitDone(t)
        \/ ExecLine258(t)
        \/ ExecLine265(t)
        \/ CallSettings(t)
        \/ InjectorResolve(t)
        \/ Retry(t)

Spec == Init /\ [][Next]_vars

(***************************************************************************)
(* Sources for the checks of merge and binding: a base profile (complete,  *)
(* or lacking a group or a field) under up to two overlay profiles.        *)
(***************************************************************************)
WithoutAll(m, ks) == [j \in DOMAIN m \ ks |-> m[j]]

\* m without field f of its group g.
WithoutField(m, g, f) == With(m, g, RMap(Without(m[g].m, f)))

BackendGroups == {"local", "sagemaker", "openai"}

Bases ==
    {WithoutAll(GoodBase, S) : S \in SUBSET BackendGroups}
    \cup {Without(GoodBase, g) : g \in DOMAIN GoodBase}
    \cup UNION {{WithoutField(GoodBase, g, f) : f \in DOMAIN GoodBase[g].m} :
                  g \in DOMAIN GoodBase}

ServerOverlay(group, m) == [server |-> RMap(With(EmptyMap, group, RMap(m)))]

StoreOverlay(store, group, m) == With(EmptyMap, store, RMap(With(EmptyMap, group, RMap(m))))

ModeOverlays ==
    {[llm |-> RMap([mode |-> v])] :
        v \in {RStr(s_local), RStr(s_openai), RStr(s_sagemaker), RStr(s_mock),
               RStr(s_azure), RStr(s_empty), RInt(1)}}

PortValues == {RInt(9000), RStr(s_8001), RStr(s_6380), RStr(s_abc)}

PortOverlays ==
    {[server |-> RMap([port |-> v])] : v \in PortValues}
    \cup {StoreOverlay("documentstore", "redis", [port |-> v]) : v \in PortValues}
    \cup {StoreOverlay("indexstore", "redis", [port |-> v]) : v \in PortValues}
    \cup {[qdrant |-> RMap([port |-> v])] : v \in PortValues}
    \cup {[qdrant |-> RMap([grpc_port |-> v])] : v \in PortValues}

PartialOverlays ==
    {ServerOverlay("cors", [enabled |-> RBool(TRUE)]),
     ServerOverlay("cors", [allow_origins |-> RList(<<RStr(s_star)>>)]),
     ServerOverlay("cors", [allow_methods |-> RList(<<RStr(s_POST)>>),
                            allow_credentials |-> RStr(s_true)]),
     ServerOverlay("basic_auth", [enabled |-> RBool(TRUE)]),
     ServerOverlay("basic_auth", [secret |-> RStr(s_key)]),
     ServerOverlay("basic_auth", [enabled |-> RBool(TRUE), secret |-> RStr(s_key)]),
     ServerOverlay("jwt_auth", [enabled |-> RBool(TRUE)]),
     ServerOverlay("jwt_auth", [jwks_url |-> RStr(s_key)]),
     ServerOverlay("jwt_auth", [audience |-> RStr(s_prod)]),
     StoreOverlay("documentstore", "redis", [host |-> RStr(s_myredis)]),
     StoreOverlay("documentstore", "dynamodb", EmptyMap),
     StoreOverlay("indexstore", "redis", [host |-> RStr(s_myredis)]),
     StoreOverlay("indexstore", "dynamodb", [table_name |-> RStr(s_tbl)])}

\* Overlays that change the shape of a key: a mapping over a scalar, a scalar over a
\* mapping, a sequence over a sequence, a key the base does not have.
ShapeOverlays ==
    {[server |-> RStr(s_prod)],
     [llm |-> RMap([mode |-> RMap([name |-> RStr(s_mock)])])],
     [server |-> RMap([cors |-> RMap([allow_methods |-> RList(<<RStr(s_GET)>>)])])],
     [extra |-> RList(<<RInt(1)>>)],
     [qdrant |-> RNone],
     EmptyMap}

FirstOverlays ==
    {RMap(ExampleOverlay), AbsentSource}
    \cup {RMap(o) : o \in ModeOverlays \cup PortOverlays \cup PartialOverlays
                          \cup ShapeOverlays}

SecondOverlays ==
    {RMap([qdrant |-> RMap(EmptyMap)]),
     RMap([qdrant |-> RMap([port |-> RInt(9000)])]),
     RMap([server |-> RMap([cors |-> RMap([allow_methods |-> RList(<<RStr(s_POST)>>)]),
                            port |-> RInt(9000)])]),
     RMap(ExampleOverlay)}

BindEnvs ==
    {<<RMap(b)>> : b \in Bases}
    \cup {<<RMap(b), o>> : b \in Bases, o \in FirstOverlays}
    \cup {<<RMap(b), o1, o2>> : b \in Bases, o1 \in FirstOverlays, o2 \in SecondOverlays}
    \cup {<<AbsentSource>>, <<RMap(GoodBase), MalformedSource>>}

(***************************************************************************)
(* One process start: a single thread imports the module and then uses     *)
(* settings().                                                             *)
(***************************************************************************)
InitBind == env \in BindEnvs /\ InitProcess

NextBind ==
    \/ ImportExec(1)
    \/ ExecLine258(1)
    \/ ExecLine265(1)
    \/ CallSettings(1)

SpecBind == InitBind /\ [][NextBind]_vars

(***************************************************************************)
(* Properties of the accessor (Spec).                                      *)
(***************************************************************************)
\* The module objects whose body raised.
Failed(k) ==
    /\ k \in 1..Len(unsafe_typed_settings)
    /\ unsafe_typed_settings[k] = Unbound
    /\ ~(sys_modules = "initializing" /\ current = k)

\* The module objects whose body completed.
Loaded(k) == k \in 1..Len(unsafe_typed_settings) /\ unsafe_typed_settings[k] # Unbound

AllReturned ==
    UNION {{returned[t][i] : i \in 1..Len(returned[t])} : t \in Threads}

NoRunningModuleHandedOut ==
    \A t \in Threads :
        pc[t] = "imported" => ~(sys_modules = "initializing" /\ current = handle[t])

\* No thread holds a module in which line 258 has run and line 265 has not produced
\* the typed settings.
NoIntermediateObserved ==
    \A t \in Threads :
        pc[t] = "imported" =>
            ~(unsafe_settings[handle[t]] # Unbound
              /\ unsafe_typed_settings[handle[t]] = Unbound)

LoadErrors == {"MissingBaseProfile", "MalformedLayer", "ValidationError"}

C4_LoadOnFirstAccess ==
    ~accessed =>
        /\ loads = 0
        /\ sys_modules = "absent"
        /\ \A k \in 1..Len(unsafe_typed_settings) :
              unsafe_settings[k] = Unbound /\ unsafe_typed_settings[k] = Unbound

\* C4 amended: the pipeline runs as a consequence of the first import of the module,
\* ahead of any access.  Until some thread imports the module nothing has run; when
\* an import has returned to a thread the pipeline has run and is over (Ready or
\* Failed); so has it whenever an access has been made.
C4_LoadOnFirstImport ==
    /\ ~import_begun =>
          /\ loads = 0
          /\ sys_modules = "absent"
          /\ unsafe_settings = <<>>
          /\ unsafe_typed_settings = <<>>
          /\ global_injector = Unbound
    /\ \A t \in Threads :
          pc[t] = "imported" =>
              /\ loads >= 1
              /\ Loaded(handle[t]) \/ Failed(handle[t])
    /\ accessed => loads >= 1 /\ import_begun

\* The import has returned with the settings loaded and no access has been made.
C4_Witness ==
    /\ ~accessed
    /\ sys_modules = "ready"
    /\ Loaded(current)
    /\ \E t \in Threads : pc[t] = "imported"

(***************************************************************************)
(* Properties of merge and binding (SpecBind).                             *)
(***************************************************************************)
Missing == [t |-> "missing"]

\* The raw value at a path of a mapping (Missing when the path leaves the mapping).
RECURSIVE RawAt(_, _)
RawAt(m, p) ==
    IF p = <<>> THEN RMap(m)
    ELSE IF Head(p) \notin DOMAIN m THEN Missing
    ELSE IF Len(p) = 1 THEN m[Head(p)]
    ELSE IF m[Head(p)].t = "map" THEN RawAt(m[Head(p)].m, Tail(p))
    ELSE Missing

\* The typed value at a path of a model instance.
RECURSIVE TypedAt(_, _)
TypedAt(v, p) ==
    IF p = <<>> THEN v
    ELSE IF v.t = "model" /\ Head(p) \in DOMAIN v.f THEN TypedAt(v.f[Head(p)], Tail(p))
    ELSE Missing

IsPrefix(p, q) == Len(p) <= Len(q) /\ SubSeq(q, 1, Len(p)) = p

\* Line 265 has run in the one module body of the process.
Bound == Len(unsafe_typed_settings) = 1 /\ Loaded(1)
Rejected == Len(unsafe_typed_settings) = 1 /\ raised[1].type = "ValidationError"
Merged == unsafe_settings[1].m
Typed == unsafe_typed_settings[1]
Errors == raised[1].errs
ErrorAt(p, type) == [loc |-> p, type |-> type] \in Errors
ErrorsUnder(p) == {e \in Errors : IsPrefix(p, e.loc)}

\* Nothing was built or kept: no name bound, nothing for an access to return.
NoInstance ==
    /\ unsafe_typed_settings[1] = Unbound
    /\ global_injector = Unbound
    /\ AllReturned = {}

\* The class behind a declared type, "" when the type is not a model.
ModelClass(ty) ==
    IF ty.k = "model" THEN ty.cls
    ELSE IF ty.k = "optional" /\ ty.of.k = "model" THEN ty.of.cls
    ELSE ""

\* The required fields a mapping leaves without a value, among the groups it supplies.
RECURSIVE MissingRequired(_, _, _)
MissingRequired(cls, m, loc) ==
    UNION {IF f \notin DOMAIN m
           THEN IF Schema(cls)[f].kind = "required" THEN {loc \o <<f>>} ELSE {}
           ELSE IF ModelClass(Schema(cls)[f].ty) # "" /\ m[f].t = "map"
                THEN MissingRequired(ModelClass(Schema(cls)[f].ty), m[f].m, loc \o <<f>>)
                ELSE {} : f \in DOMAIN Schema(cls)}

\* Every field declared without a default, anywhere in the tree of classes.
RECURSIVE DeclaredRequired(_, _)
DeclaredRequired(cls, loc) ==
    UNION {(IF Schema(cls)[f].kind = "required" THEN {loc \o <<f>>} ELSE {})
           \cup (IF ModelClass(Schema(cls)[f].ty) # ""
                 THEN DeclaredRequired(ModelClass(Schema(cls)[f].ty), loc \o <<f>>)
                 ELSE {}) : f \in DOMAIN Schema(cls)}

BackendVariant ==
    /\ \A k \in DOMAIN GoodBase \ ({"llm"} \cup BackendGroups) :
          k \in DOMAIN Merged /\ Merged[k] = GoodBase[k]
    /\ \A k \in BackendGroups : k \in DOMAIN Merged => Merged[k] = GoodBase[k]
    /\ DOMAIN Merged \subseteq DOMAIN GoodBase \cup {"qdrant"}
    /\ "qdrant" \in DOMAIN Merged =>
          Merged["qdrant"] \in {RMap(EmptyMap), RMap([port |-> RInt(9000)]), RNone}
    /\ "llm" \in DOMAIN Merged
    /\ Merged["llm"].t = "map"
    /\ DOMAIN Merged["llm"].m = {"mode"}

ModeValue == Merged["llm"].m["mode"]
ModeAccepted == ModeValue.t = "str" /\ ModeValue.s \in {s_local, s_openai, s_sagemaker, s_mock}

\* C6 as stated: binding succeeds exactly for the four modes, whichever of the
\* backend groups are populated.
C6_ModeAloneDecides ==
    ((Bound \/ Rejected) /\ BackendVariant) => (Bound <=> ModeAccepted)

\* C6 amended: binding fails, with an error at llm.mode, for every mode outside the
\* four; for a mode inside it raises no error at llm.mode and succeeds exactly when
\* local, sagemaker and openai are all populated, whatever the mode selects and
\* whether or not qdrant is populated.
C6_ModeEnum ==
    ((Bound \/ Rejected) /\ BackendVariant) =>
        /\ ~ModeAccepted => Rejected /\ ErrorAt(<<"llm", "mode">>, "literal_error")
        /\ ModeAccepted =>
              /\ Rejected => ErrorsUnder(<<"llm">>) = {}
              /\ Bound <=> BackendGroups \subseteq DOMAIN Merged
              /\ Bound => TypedAt(Typed, <<"llm", "mode">>) = TStr(ModeValue.s)
        /\ \A g \in BackendGroups \ DOMAIN Merged : ErrorAt(<<g>>, "missing")

\* Mode openai is bound with local and sagemaker populated and qdrant present.
C6_Witness ==
    /\ Bound
    /\ BackendVariant
    /\ ModeValue = RStr(s_openai)
    /\ "qdrant" \in DOMAIN Merged
    /\ TypedAt(Typed, <<"llm", "mode">>) = TStr(s_openai)

\* The nested groups whose fields all have defaults, and those with a required field.
DefaultedGroups ==
    {<<"server", "cors">>, <<"documentstore", "redis">>, <<"documentstore", "dynamodb">>,
     <<"indexstore", "redis">>, <<"indexstore", "dynamodb">>}
AuthGroups == {<<"server", "basic_auth">>, <<"server", "jwt_auth">>}

\* The class of the value at a path of the Settings tree.
RECURSIVE ClassAt(_, _)
ClassAt(cls, p) ==
    IF p = <<>> THEN cls ELSE ClassAt(ModelClass(Schema(cls)[Head(p)].ty), Tail(p))

StripId(x) == IF x.t = "list" THEN [t |-> "list", l |-> x.l] ELSE x

ScalarTyped(raw) ==
    CASE raw.t = "bool" -> TBool(raw.b)
      [] raw.t = "int" -> TInt(raw.n)
      [] raw.t = "str" -> TStr(raw.s)
      [] OTHER -> TNone

\* x is what the declaration fd gives a field that the mapping leaves out.
RECURSIVE HoldsDefault(_, _)
HoldsDefault(fd, x) ==
    CASE fd.kind = "default" -> StripId(x) = StripId(fd.default)
      [] fd.kind \in {"default_instance", "factory"} ->
            /\ x.t = "model"
            /\ x.cls = fd.ty.cls
            /\ \A k \in DOMAIN Schema(fd.ty.cls) :
                  IF k \in DOMAIN fd.kwargs
                  THEN x.f[k] = ScalarTyped(fd.kwargs[k])
                  ELSE HoldsDefault(Schema(fd.ty.cls)[k], x.f[k])
      [] OTHER -> FALSE

\* The fields of the group at path p that the merged mapping supplies.
Supplied(p) == DOMAIN RawAt(Merged, p).m

\* The unsupplied fields of the group at p hold their defaults in the bound instance.
UnsuppliedHoldDefaults(p) ==
    \A f \in DOMAIN Schema(ClassAt("Settings", p)) \ Supplied(p) :
        HoldsDefault(Schema(ClassAt("Settings", p))[f], TypedAt(Typed, p \o <<f>>))

\* Binding reports nothing about the group at p but what concerns a supplied field.
OnlySuppliedFieldsFail(p) ==
    \A e \in ErrorsUnder(p) : Len(e.loc) > Len(p) /\ e.loc[Len(p) + 1] \in Supplied(p)

\* C7 as stated: for each of the seven groups, a mapping that supplies a subset of
\* the group's fields binds the group, the unsupplied fields taking their defaults.
C7_AnyPartialGroupBinds ==
    (Bound \/ Rejected) =>
        \A p \in DefaultedGroups \cup AuthGroups :
            RawAt(Merged, p).t = "map" =>
                /\ Rejected => OnlySuppliedFieldsFail(p)
                /\ Bound => UnsuppliedHoldDefaults(p)

\* C7 amended: for server.cors and the redis and dynamodb groups of documentstore
\* and indexstore, a mapping that supplies a subset of the group's fields binds the
\* group, and every unsupplied field of the group and of its parent holds its
\* declared default.  For server.basic_auth and server.jwt_auth the same holds only
\* when the subset includes the required field (secret, jwks_url); a subset without
\* it fails binding with a "missing" error at that field.
C7_PartialGroupKeepsDefaults ==
    (Bound \/ Rejected) =>
    /\ \A p \in DefaultedGroups :
          RawAt(Merged, p).t = "map" =>
              /\ Rejected => OnlySuppliedFieldsFail(p)
              /\ Bound => UnsuppliedHoldDefaults(p) /\ UnsuppliedHoldDefaults(<<p[1]>>)
    /\ \A p \in AuthGroups :
          RawAt(Merged, p).t = "map" =>
              LET required == {f \in DOMAIN Schema(ClassAt("Settings", p)) :
                                  Schema(ClassAt("Settings", p))[f].kind = "required"}
              IN  /\ required \ Supplied(p) # {} =>
                        /\ Rejected
                        /\ NoInstance
                        /\ \A f \in required \ Supplied(p) : ErrorAt(p \o <<f>>, "missing")
                  /\ Rejected =>
                        \A e \in ErrorsUnder(p) :
                            /\ Len(e.loc) > Len(p)
                            /\ e.loc[Len(p) + 1] \in Supplied(p) \cup required
                  /\ Bound => UnsuppliedHoldDefaults(p) /\ UnsuppliedHoldDefaults(<<p[1]>>)

\* documentstore.redis is given only a host: the port, the namespace and the
\* dynamodb group keep their defaults.
C7_Witness ==
    /\ Bound
    /\ RawAt(Merged, <<"documentstore", "redis">>) = RMap([host |-> RStr(s_myredis)])
    /\ TypedAt(Typed, <<"documentstore", "redis", "host">>) = TStr(s_myredis)
    /\ TypedAt(Typed, <<"documentstore", "redis", "port">>) = TInt(6379)
    /\ TypedAt(Typed, <<"documentstore", "namespace">>) = TStr(s_private_gpt_documents)
    /\ TypedAt(Typed, <<"documentstore", "dynamodb", "table_name">>) = TStr(s_dummy_table)

\* res is one merge step of nxt over acc: mappings present on both sides are merged
\* key by key, any other key of nxt replaces, any key of acc alone is kept.
RECURSIVE StepCorrect(_, _, _)
StepCorrect(acc, nxt, res) ==
    /\ DOMAIN res = DOMAIN acc \cup DOMAIN nxt
    /\ \A k \in DOMAIN res :
          IF k \notin DOMAIN nxt THEN res[k] = acc[k]
          ELSE IF k \in DOMAIN acc /\ acc[k].t = "map" /\ nxt[k].t = "map"
               THEN res[k].t = "map" /\ StepCorrect(acc[k].m, nxt[k].m, res[k].m)
               ELSE res[k] = nxt[k]

\* The accumulator after i layers; after the last one, what line 258 bound.
Accumulator(i) == IF i = Len(env) THEN Merged ELSE merge_settings(env, i)

\* C8: the mapping that line 258 binds and line 265 hands to Settings is the fold of
\* the layers, left to right from the empty mapping, each step override-correct.
C8_MergeOverrideCorrect ==
    (Len(unsafe_settings) = 1 /\ unsafe_settings[1] # Unbound) =>
        /\ merge_settings(env, 0) = EmptyMap
        /\ \A i \in 1..Len(env) :
              StepCorrect(Accumulator(i - 1), LayerOf(env[i]), Accumulator(i))

\* Three layers: the second overlay's sequence replaced the first's, its port
\* replaced the base's, and the keys of the base alone are still there.
C8_Witness ==
    /\ Len(env) = 3
    /\ Len(unsafe_settings) = 1
    /\ unsafe_settings[1] # Unbound
    /\ env[1] = RMap(GoodBase)
    /\ RawAt(LayerOf(env[2]), <<"server", "cors", "allow_methods">>) = RList(<<RStr(s_GET)>>)
    /\ RawAt(Merged, <<"server", "cors", "allow_methods">>) = RList(<<RStr(s_POST)>>)
    /\ RawAt(Merged, <<"server", "port">>) = RInt(9000)
    /\ RawAt(Merged, <<"server", "env_name">>) = RStr(s_prod)
    /\ RawAt(Merged, <<"data">>) = GoodBase["data"]

IntPaths ==
    {<<"server", "port">>, <<"documentstore", "redis", "port">>,
     <<"indexstore", "redis", "port">>, <<"qdrant", "port">>, <<"qdrant", "grpc_port">>}

\* The decimal numerals among the raw strings, with the integers they denote.
Numerals == (s_8001 :> 8001) @@ (s_6380 :> 6380)

\* C10 as stated: a string at an integer-typed field fails binding and no instance
\* is produced; so an instance is bound only from a mapping with no string at an
\* integer-typed field.
C10_StringRejected ==
    Bound => \A p \in IntPaths : RawAt(Merged, p).t # "str"

\* C10 amended: a string at an integer-typed field is coerced when it is a decimal
\* numeral (port "8001" binds as 8001 and raises no error at the field); a string
\* that is no numeral fails binding with an error naming the field, and no instance
\* is produced.
C10_NumericStringCoerced ==
    (Bound \/ Rejected) =>
        \A p \in IntPaths :
            RawAt(Merged, p).t = "str" =>
                IF RawAt(Merged, p).s \in DOMAIN Numerals
                THEN /\ Rejected => ErrorsUnder(p) = {}
                     /\ Bound => TypedAt(Typed, p) = TInt(Numerals[RawAt(Merged, p).s])
                ELSE Rejected /\ NoInstance /\ ErrorAt(p, "int_parsing")

\* server.port "8001" is bound as the integer 8001.
C10_Witness ==
    /\ Bound
    /\ RawAt(Merged, <<"server", "port">>) = RStr(s_8001)
    /\ TypedAt(Typed, <<"server", "port">>) = TInt(8001)

(***************************************************************************)
(* Independent instances.  Settings is an ordinary (not frozen) model:     *)
(* code that holds the raw mapping can construct another instance, and a   *)
(* holder of an instance can assign to a field of a nested group or change *)
(* a nested list in place.  An object reachable from two instances is      *)
(* changed for both.                                                       *)
(***************************************************************************)
MaxTests == 1

\* Settings(kwargs) over the module's unsafe_settings, outside the module body.
TestConstruct ==
    /\ pc[1] = "imported"
    /\ sys_modules = "ready"
    /\ Len(tests) < MaxTests
    /\ tests' = Append(tests,
                       Construct(unsafe_settings[current].m, TestOwner(Len(tests) + 1)).v)
    /\ UNCHANGED <<env, sys_modules, current, import_lock, unsafe_settings,
                   unsafe_typed_settings, global_injector, pc, handle, raised, returned,
                   loads, import_begun, accessed, touched>>

\* The nested groups and lists of a Settings instance.
MutablePaths ==
    {<<"server", "cors">>, <<"server", "basic_auth">>, <<"server", "jwt_auth">>,
     <<"server", "cors", "allow_origins">>, <<"server", "cors", "allow_methods">>,
     <<"server", "cors", "allow_headers">>,
     <<"documentstore", "redis">>, <<"documentstore", "dynamodb">>,
     <<"indexstore", "redis">>, <<"indexstore", "dynamodb">>}

\* The field an in-place change of a group assigns, and the value it assigns.
AssignedField(cls) ==
    CASE cls = "RedisSettings" -> "host"
      [] cls = "DynamoDBSettings" -> "table_name"
      [] OTHER -> "enabled"
AssignedValue(cls) ==
    CASE cls = "RedisSettings" -> TStr(s_myredis)
      [] cls = "DynamoDBSettings" -> TStr(s_tbl)
      [] OTHER -> TBool(TRUE)

\* v after the object with identity x is changed in place: a list gets an item
\* appended, a group gets a field assigned.
RECURSIVE MutateObject(_, _)
MutateObject(v, x) ==
    CASE v.t = "list" -> IF v.id = x THEN [v EXCEPT !.l = Append(@, TStr(s_star))] ELSE v
      [] v.t = "model" ->
            LET below == [k \in DOMAIN v.f |-> MutateObject(v.f[k], x)]
            IN  IF v.id = x
                THEN [v EXCEPT !.f = [below EXCEPT ![AssignedField(v.cls)] =
                                                        AssignedValue(v.cls)]]
                ELSE [v EXCEPT !.f = below]
      [] OTHER -> v

\* The instances alive: 0 is the module's unsafe_typed_settings, j > 0 is tests[j].
Instance(i) == IF i = 0 THEN unsafe_typed_settings[current] ELSE tests[i]

\* An in-place change of the object at path p of instance i.
Mutate(i, p) ==
    /\ pc[1] = "imported"
    /\ sys_modules = "ready"
    /\ i \in 0..Len(tests)
    /\ Instance(i).id.owner \notin touched
    /\ TypedAt(Instance(i), p).t \in {"list", "model"}
    /\ LET x == TypedAt(Instance(i), p).id
       IN  /\ unsafe_typed_settings' =
                  [unsafe_typed_settings EXCEPT ![current] = MutateObject(@, x)]
           /\ tests' = [j \in 1..Len(tests) |-> MutateObject(tests[j], x)]
           /\ global_injector' =
                  IF global_injector = Unbound THEN Unbound
                  ELSE [global_injector EXCEPT !.bound = MutateObject(@, x)]
    /\ touched' = touched \cup {Instance(i).id.owner}
    /\ UNCHANGED <<env, sys_modules, current, import_lock, unsafe_settings, pc, handle,
                   raised, returned, loads, import_begun, accessed>>

IsolationEnvs ==
    {<<RMap(GoodBase)>>,
     <<RMap(GoodBase), RMap(ExampleOverlay)>>,
     <<RMap(GoodBase), RMap(ServerOverlay("cors", [enabled |-> RBool(TRUE)]))>>,
     <<RMap(GoodBase),
       RMap(ServerOverlay("basic_auth", [enabled |-> RBool(TRUE), secret |-> RStr(s_key)]))>>}

InitIsolation == env \in IsolationEnvs /\ InitProcess

NextIsolation ==
    \/ ImportExec(1)
    \/ ExecLine258(1)
    \/ ExecLine265(1)
    \/ TestConstruct
    \/ \E i \in 0..MaxTests, p \in MutablePaths : Mutate(i, p)

SpecIsolation == InitIsolation /\ [][NextIsolation]_vars

\* The identities of the lists and groups below the root of an instance.
RECURSIVE ObjectIds(_)
ObjectIds(v) ==
    CASE v.t = "list" -> {v.id}
      [] v.t = "model" -> {v.id} \cup UNION {ObjectIds(v.f[k]) : k \in DOMAIN v.f}
      [] OTHER -> {}

\* The value of an instance with the identities left out.
RECURSIVE Content(_)
Content(v) ==
    CASE v.t = "list" -> [t |-> "list", l |-> v.l]
      [] v.t = "model" ->
            [t |-> "model", cls |-> v.cls, f |-> [k \in DOMAIN v.f |-> Content(v.f[k])]]
      [] OTHER -> v

\* What binding the merged mapping yields, whoever constructs it.
FreshContent == Content(BindModel("Settings", unsafe_settings[current].m, <<"fresh">>, <<>>).v)

\* C9: two independently constructed instances share no nested group and no list,
\* defaults included, and an in-place change made through one instance is not
\* observable through an instance it was not made through.
C9_DefaultIsolation ==
    (sys_modules = "ready" /\ pc[1] = "imported") =>
        \A i, j \in 0..Len(tests) :
            /\ i # j => ObjectIds(Instance(i)) \cap ObjectIds(Instance(j)) = {}
            /\ Instance(i).id.owner \notin touched => Content(Instance(i)) = FreshContent

\* A default list of the module's instance was changed in place and the instance a
\* test constructed from the same mapping still has the declared default.
C9_Witness ==
    /\ sys_modules = "ready"
    /\ env = <<RMap(GoodBase)>>
    /\ Len(tests) = 1
    /\ touched = {LoadOwner(1)}
    /\ TypedAt(Instance(0), <<"server", "cors", "allow_origins">>).l = <<TStr(s_star)>>
    /\ TypedAt(Instance(1), <<"server", "cors", "allow_origins">>).l = <<>>
    /\ TypedAt(Instance(1), <<"server", "cors", "enabled">>) = TBool(FALSE)
====
